---- MODULE Spec2Model ----
(***************************************************************************)
(* Model of sql_metadata/token.py: the SQLToken linked list, its sentinel  *)
(* EmptyToken, the traversal primitives and the derived properties.        *)
(*                                                                         *)
(* Python strings are sequences of one-character strings, so that strip,   *)
(* split, join, translate and upper are computed character by character.   *)
(* Object references are integers: EmptyToken is the sentinel's reference, *)
(* 1..n are the tokens of the stream in order, None is Python's None.      *)
(***************************************************************************)
EXTENDS Integers, Sequences, FiniteSets, TLC

VARIABLES raw, heap, pc, op, call, result

vars == <<raw, heap, pc, op, call, result>>

\* ------------------------------------------------------------------ bounds

\* longest generated lexer stream
MaxLen == 3
\* longest generated raw lexer value (quote-stripping streams)
MaxRawLen == 3
\* largest level passed to get_nth_previous beyond the chain length
MaxExtraLevel == 2

\* ------------------------------------------------------- python strings

\* the backtick character, which a TLA+ string literal cannot hold
Backtick == "BACKTICK"

\* the double-quote character
DQuote == "\""

Lower == <<"a","b","c","d","e","f","g","h","i","j","k","l","m",
           "n","o","p","q","r","s","t","u","v","w","x","y","z">>

Upper == <<"A","B","C","D","E","F","G","H","I","J","K","L","M",
           "N","O","P","Q","R","S","T","U","V","W","X","Y","Z">>

\* str.upper() on one character
UpperChar(c) ==
    IF \E i \in DOMAIN Lower : Lower[i] = c
    THEN Upper[CHOOSE i \in DOMAIN Lower : Lower[i] = c]
    ELSE c

\* the characters str.maketrans("", "", " \n\t\r") deletes
Whitespace == {" ", "\n", "\t", "\r"}

RECURSIVE MapUpper(_)
MapUpper(s) ==
    IF s = <<>> THEN <<>> ELSE <<UpperChar(Head(s))>> \o MapUpper(Tail(s))

\* s.translate(str.maketrans("", "", " \n\t\r")).upper()
Normalize(s) ==
    LET keep(c) == c \notin Whitespace
    IN  MapUpper(SelectSeq(s, keep))

RECURSIVE LStrip(_, _)
LStrip(s, c) ==
    IF s # <<>> /\ Head(s) = c THEN LStrip(Tail(s), c) ELSE s

RECURSIVE RStrip(_, _)
RStrip(s, c) ==
    IF s # <<>> /\ s[Len(s)] = c THEN RStrip(SubSeq(s, 1, Len(s) - 1), c) ELSE s

\* s.strip(c) for a one-character c
Strip(s, c) == RStrip(LStrip(s, c), c)

\* "." in s
HasDot(s) == \E i \in DOMAIN s : s[i] = "."

\* s.split(".")
RECURSIVE Split(_)
Split(s) ==
    IF ~HasDot(s) THEN <<s>>
    ELSE LET i == CHOOSE k \in DOMAIN s :
                      s[k] = "." /\ \A j \in 1..(k - 1) : s[j] # "."
         IN  <<SubSeq(s, 1, i - 1)>> \o Split(SubSeq(s, i + 1, Len(s)))

\* ".".join(parts)
RECURSIVE Join(_)
Join(parts) ==
    IF parts = <<>> THEN <<>>
    ELSE IF Len(parts) = 1 THEN parts[1]
    ELSE parts[1] \o <<".">> \o Join(Tail(parts))

\* ------------------------------------------------------------ references

\* Python's None in a link field
None == -1

\* the reference of the module-level sentinel
EmptyToken == 0

\* self.last_keyword = None: no string of characters equals it
NoKeyword == <<"None">>

\* --------------------------------------------------------- lexer tokens

\* a sqlparse token: its text, its ttype as a path below Token, and
\* is_keyword (ttype in Keyword)
Tok(v, tt) == [value |-> v, ttype |-> tt, is_keyword |-> tt[1] = "Keyword"]

\* ttype.parent
Parent(tt) == SubSeq(tt, 1, Len(tt) - 1)

T_Name == <<"Name">>
T_Builtin == <<"Name", "Builtin">>
T_Keyword == <<"Keyword">>
T_DML == <<"Keyword", "DML">>
T_Punctuation == <<"Punctuation">>
T_Integer == <<"Literal", "Number", "Integer">>
T_Comment == <<"Comment", "Multiline">>

S_SELECT == <<"S","E","L","E","C","T">>
S_FROM == <<"F","R","O","M">>
S_from == <<"f","r","o","m">>
S_orders == <<"o","r","d","e","r","s">>
S_al == <<"a","l">>
S_col == <<"c","o","l">>
S_alias == <<"a","l","i","a","s">>
S_count == <<"c","o","u","n","t">>
S_COUNT == <<"C","O","U","N","T">>
S_MAX == <<"M","A","X">>
S_comment == <<"/","*"," ","c"," ","*","/">>

L_SELECT == Tok(S_SELECT, T_DML)
L_FROM == Tok(S_FROM, T_Keyword)
L_from == Tok(S_from, T_Keyword)
L_a == Tok(<<"a">>, T_Name)
L_b == Tok(<<"b">>, T_Name)
L_c == Tok(<<"c">>, T_Name)
L_t == Tok(<<"t">>, T_Name)
L_al == Tok(S_al, T_Name)
L_col == Tok(S_col, T_Name)
L_alias == Tok(S_alias, T_Name)
L_count == Tok(S_count, T_Name)
L_dot == Tok(<<".">>, T_Punctuation)
L_comma == Tok(<<",">>, T_Punctuation)
L_lpar == Tok(<<"(">>, T_Punctuation)
L_rpar == Tok(<<")">>, T_Punctuation)
L_one == Tok(<<"1">>, T_Integer)
L_null == Tok(<<"n","u","l","l">>, T_Builtin)
L_comment == Tok(S_comment, T_Comment)
\* quoted identifiers whose text holds a dot
L_qab == Tok(<<Backtick,"a",".","b",Backtick>>, T_Name)
L_qcd == Tok(<<DQuote,"c",".","d",DQuote>>, T_Name)

\* --------------------------------------------------------------- tokens

\* SQLToken._set_default_parenthesis_status
DefaultParenthesisStatus ==
    [is_in_nested_function |-> FALSE,
     is_subquery_start |-> FALSE, is_subquery_end |-> FALSE,
     is_with_query_start |-> FALSE, is_with_query_end |-> FALSE,
     is_with_columns_start |-> FALSE, is_with_columns_end |-> FALSE,
     is_nested_function_start |-> FALSE, is_nested_function_end |-> FALSE,
     is_column_definition_start |-> FALSE, is_column_definition_end |-> FALSE]

\* SQLToken._set_default_values
DefaultValues ==
    [value |-> <<>>,
     is_keyword |-> FALSE, is_name |-> FALSE, is_punctuation |-> FALSE,
     is_dot |-> FALSE, is_wildcard |-> FALSE, is_integer |-> FALSE,
     is_float |-> FALSE, is_comment |-> FALSE,
     is_left_parenthesis |-> FALSE, is_right_parenthesis |-> FALSE,
     last_keyword |-> NoKeyword, subquery_level |-> 0,
     next_token |-> None, previous_token |-> None]

\* a constructor that leaves the links of a built token at None
ConstructedLinksAbsent == [next_token |-> None, previous_token |-> None]

\* the link fields a token built from a lexer token starts with
ConstructedLinks == [next_token |-> EmptyToken, previous_token |-> EmptyToken]

\* the fields SQLToken.__init__ derives from a lexer token
Classified(tok, subquery_level, last_keyword) ==
    [value |-> Strip(Strip(tok.value, Backtick), DQuote),
     is_keyword |-> tok.is_keyword
                    \/ (Parent(tok.ttype) = T_Name /\ tok.ttype # T_Name),
     is_name |-> tok.ttype = T_Name,
     is_punctuation |-> tok.ttype = T_Punctuation,
     is_dot |-> tok.value = <<".">>,
     is_wildcard |-> tok.ttype = <<"Wildcard">>,
     is_integer |-> tok.ttype = T_Integer,
     is_float |-> tok.ttype = <<"Literal", "Number", "Float">>,
     is_comment |-> tok.ttype = <<"Comment">> \/ Parent(tok.ttype) = <<"Comment">>,
     is_left_parenthesis |-> tok.value = <<"(">>,
     is_right_parenthesis |-> tok.value = <<")">>,
     last_keyword |-> last_keyword,
     subquery_level |-> subquery_level]

\* SQLToken(): the sentinel
NewEmptyToken == [position |-> -1] @@ DefaultValues @@ DefaultParenthesisStatus

\* SQLToken(tok, index, subquery_level, last_keyword)
SQLToken(tok, index, subquery_level, last_keyword) ==
    [position |-> index]
        @@ Classified(tok, subquery_level, last_keyword)
        @@ ConstructedLinks
        @@ DefaultParenthesisStatus

\* the tokens constructed so far (the sentinel excluded)
NumTokens == Cardinality(DOMAIN heap) - 1

Tokens == 1..NumTokens

\* ------------------------------------------------------ python results

\* what a call hands back: a string, a bool, a token reference, or an
\* exception (exc names it; "none" when the call returned)
RetStr(v) == [exc |-> "none", str |-> v, bool |-> FALSE, tok |-> None, hops |-> 0]
RetBool(b) == [exc |-> "none", str |-> <<>>, bool |-> b, tok |-> None, hops |-> 0]
RetTok(t, n) == [exc |-> "none", str |-> <<>>, bool |-> FALSE, tok |-> t, hops |-> n]
Raise(e) == [exc |-> e, str |-> <<>>, bool |-> FALSE, tok |-> None, hops |-> 0]
NoResult == [exc |-> "none", str |-> <<>>, bool |-> FALSE, tok |-> None, hops |-> 0]

\* the truth value of a link field: SQLToken defines neither __bool__ nor
\* __len__, so every token, the sentinel included, is true and only None
\* is false
Truthy(ref) == ref # None

\* --------------------------------------------- properties and primitives

\* SQLToken.__str__
str(self) == Strip(heap[self].value, DQuote)

\* SQLToken.normalized
normalized(self) == Normalize(heap[self].value)

\* keywords_lists.FUNCTIONS_IGNORED
FUNCTIONS_IGNORED == {S_COUNT, S_MAX}

\* SQLToken.stringified_token
stringified_token(self) ==
    IF Truthy(heap[self].previous_token)
    THEN LET previous_token == heap[self].previous_token
         IN  IF \/ normalized(self) \in {<<")">>, <<".">>, <<",">>}
                \/ normalized(previous_token) \in {<<"(">>, <<".">>}
                \/ /\ heap[self].is_left_parenthesis
                   /\ normalized(previous_token) \in FUNCTIONS_IGNORED
             THEN str(self)
             ELSE <<" ">> \o str(self)
    ELSE str(self)

\* SQLToken.last_keyword_normalized
last_keyword_normalized(self) ==
    IF heap[self].last_keyword # NoKeyword /\ heap[self].last_keyword # <<>>
    THEN Normalize(heap[self].last_keyword)
    ELSE <<>>

\* a get_nth_previous that ignores level and hops once
get_nth_previous_one_hop(self, level) ==
    IF Truthy(heap[self].previous_token) THEN heap[self].previous_token ELSE EmptyToken

\* SQLToken.get_nth_previous, for level >= 1
RECURSIVE get_nth_previous(_, _)
get_nth_previous(self, level) ==
    IF Truthy(heap[self].previous_token)
    THEN IF level > 1
         THEN get_nth_previous(heap[self].previous_token, level - 1)
         ELSE heap[self].previous_token
    ELSE EmptyToken

\* get_nth_previous as called: the assertion on level, then the walk
call_get_nth_previous(self, level) ==
    IF ~(level >= 1) THEN Raise("AssertionError")
    ELSE RetTok(get_nth_previous(self, level), 0)

\* getattr(token, value_attribute): a field, or the normalized property
GetAttr(token, value_attribute) ==
    IF value_attribute = "normalized" THEN normalized(token)
    ELSE heap[token][value_attribute]

\* a find_nearest_token loop that compares the token it stands on, not
\* its neighbour
RECURSIVE FindLoop_tests_current(_, _, _, _, _)
FindLoop_tests_current(token, value, attribute, value_attribute, hops) ==
    IF Truthy(heap[token][attribute])
    THEN LET tok_value == GetAttr(token, value_attribute)
         IN  IF \E i \in DOMAIN value : value[i] = tok_value
             THEN RetTok(token, hops + 1)
             ELSE FindLoop_tests_current(heap[token][attribute], value, attribute,
                                         value_attribute, hops + 1)
    ELSE RetTok(EmptyToken, hops)

\* the while loop of find_nearest_token, from token, hops iterations in
RECURSIVE FindLoop(_, _, _, _, _)
FindLoop(token, value, attribute, value_attribute, hops) ==
    IF Truthy(heap[token][attribute])
    THEN LET neighbour == heap[token][attribute]
             tok_value == GetAttr(neighbour, value_attribute)
         IN  IF \E i \in DOMAIN value : value[i] = tok_value
             THEN RetTok(neighbour, hops + 1)
             ELSE FindLoop(neighbour, value, attribute, value_attribute, hops + 1)
    ELSE RetTok(EmptyToken, hops)

\* SQLToken.find_nearest_token; value is a Python value, a list or not
find_nearest_token(self, value, direction, value_attribute) ==
    LET targets == IF value.type # "list" THEN <<value.item>> ELSE value.items
        attribute == IF direction = "left" THEN "previous_token" ELSE "next_token"
    IN  FindLoop(self, targets, attribute, value_attribute, 0)

\* a Python scalar and a Python list, as find_nearest_token's value
PyScalar(x) == [type |-> "scalar", item |-> x]
PyList(xs) == [type |-> "list", items |-> xs]

\* SQLToken.left_expanded: the while loop, from token with value so far
RECURSIVE LeftExpandLoop(_, _)
LeftExpandLoop(token, value) ==
    IF /\ Truthy(heap[token].previous_token)
       /\ heap[heap[token].previous_token].is_dot
    THEN LET two_back == get_nth_previous(token, 2)
         IN  LeftExpandLoop(
                 two_back,
                 IF Truthy(two_back) /\ heap[two_back].is_name
                 THEN str(two_back) \o <<".">> \o value
                 ELSE value)
    ELSE value

\* SQLToken.left_expanded
left_expanded(self) == Strip(LeftExpandLoop(self, str(self)), Backtick)

\* SQLToken.is_in_parenthesis
is_in_parenthesis(self) ==
    LET left_parenthesis == find_nearest_token(self, PyScalar(<<"(">>), "left", "value").tok
        right_parenthesis == find_nearest_token(self, PyScalar(<<")">>), "right", "value").tok
    IN  heap[left_parenthesis].value # <<>> /\ heap[right_parenthesis].value # <<>>

\* an is_alias_without_as that forgets the comment test
is_alias_without_as_no_comment(self) ==
    IF heap[self].next_token = None THEN Raise("AttributeError")
    ELSE IF normalized(heap[self].next_token) \notin {<<",">>, S_FROM}
    THEN RetBool(FALSE)
    ELSE IF heap[self].previous_token = None THEN Raise("AttributeError")
    ELSE IF normalized(heap[self].previous_token)
                \in {<<",">>, <<".">>, <<"(">>, S_SELECT}
    THEN RetBool(FALSE)
    ELSE RetBool(last_keyword_normalized(self) = S_SELECT)

\* SQLToken.is_alias_without_as: reading an attribute of None raises
\* AttributeError; the conjunction evaluates left to right and stops at the first false
is_alias_without_as(self) ==
    IF heap[self].next_token = None THEN Raise("AttributeError")
    ELSE IF normalized(heap[self].next_token) \notin {<<",">>, S_FROM}
    THEN RetBool(FALSE)
    ELSE IF heap[self].previous_token = None THEN Raise("AttributeError")
    ELSE IF normalized(heap[self].previous_token)
                \in {<<",">>, <<".">>, <<"(">>, S_SELECT}
    THEN RetBool(FALSE)
    ELSE IF last_keyword_normalized(self) # S_SELECT THEN RetBool(FALSE)
    ELSE RetBool(~heap[heap[self].previous_token].is_comment)

\* SQLToken.is_in_with_columns
is_in_with_columns(self) ==
    /\ heap[find_nearest_token(self, PyScalar(<<"(">>), "left", "value").tok]
           .is_with_columns_start
    /\ heap[find_nearest_token(self, PyScalar(<<")">>), "right", "value").tok]
           .is_with_columns_end

\* dict.get(key, key)
Get(table_aliases, key) ==
    IF key \in DOMAIN table_aliases THEN table_aliases[key] ELSE key

\* a table_prefixed_column that rejects three segments already
table_prefixed_column_depth2(self, table_aliases) ==
    LET value == left_expanded(self)
    IN  IF HasDot(value)
        THEN LET parts == Split(value)
             IN  IF Len(parts) >= 3 THEN Raise("ValueError")
                 ELSE RetStr(Join(<<Get(table_aliases, parts[1])>> \o Tail(parts)))
        ELSE RetStr(value)

\* SQLToken.table_prefixed_column
table_prefixed_column(self, table_aliases) ==
    LET value == left_expanded(self)
    IN  IF HasDot(value)
        THEN LET parts == Split(value)
             IN  IF Len(parts) > 3 THEN Raise("ValueError")
                 ELSE RetStr(Join(<<Get(table_aliases, parts[1])>> \o Tail(parts)))
        ELSE RetStr(value)

\* -------------------------------------------------------- lexer streams

\* every sequence over A of length 0..n
SeqsUpTo(A, n) == UNION {[1..k -> A] : k \in 0..n}

\* the queries of the documented scenarios
Sc_abc == <<L_a, L_dot, L_b, L_dot, L_c>>
Sc_alcol == <<L_al, L_dot, L_col>>
Sc_quoted == <<L_qab, L_dot, L_qcd>>
Sc_select == <<L_SELECT, L_col, L_alias, L_FROM, L_t>>
Sc_selab == <<L_SELECT, L_a, L_comma, L_b>>
Sc_paren == <<L_lpar, L_a, L_rpar>>
Sc_count == <<L_SELECT, L_count, L_lpar, L_a, L_rpar>>

\* streams of names, dots and parentheses
Streams ==
    SeqsUpTo({L_a, L_dot, L_lpar, L_rpar}, MaxLen) \cup {Sc_count, Sc_selab}

\* streams of dotted names, with a builtin (a keyword to SQLToken) among them
DotStreams ==
    SeqsUpTo({L_a, L_dot, L_null}, MaxLen + 2)
        \cup {Sc_abc, Sc_alcol, Sc_quoted, Sc_paren}

\* select lists: every short stream, and every keyword-previous-token-next
\* neighbourhood of a candidate alias
AliasStreams ==
    SeqsUpTo({L_SELECT, L_col, L_comma, L_from}, MaxLen + 1)
        \cup {<<k, p, L_alias, n>> :
                k \in {L_SELECT, L_from, L_a},
                p \in {L_comma, L_dot, L_lpar, L_SELECT, L_comment, L_col, L_one},
                n \in {L_comma, L_FROM, L_from, L_t, L_rpar}}
        \cup {Sc_select, Sc_selab, Sc_paren, Sc_count}

\* one-token streams of every raw value over backticks, double quotes and
\* a letter
StripStreams ==
    {<<Tok(v, T_Name)>> : v \in SeqsUpTo({Backtick, DQuote, "a"}, MaxRawLen)}
        \cup {Sc_paren}

\* --------------------------------------------------------- call arguments

\* the table_aliases dictionaries passed to table_prefixed_column
AliasMaps == << <<>>, (S_al :> S_orders), (<<"a">> :> <<"t">>) >>

\* the (value, value_attribute) pairs passed to find_nearest_token
FindArgs ==
    << [value |-> PyScalar(<<"(">>), value_attribute |-> "value"],
       [value |-> PyScalar(<<")">>), value_attribute |-> "value"],
       [value |-> PyList(<<<<"A">>, <<".">>, S_FROM>>), value_attribute |-> "normalized"],
       [value |-> PyScalar(TRUE), value_attribute |-> "is_name"],
       [value |-> PyScalar(<<>>), value_attribute |-> "value"] >>

Directions == {"left", "right"}

Call(self) == [self |-> self, level |-> 0, arg |-> 0, direction |-> "", aliases |-> 0]

\* ------------------------------------------------------------- builder

\* the builder's last_keyword: the text of the most recent keyword token
LastKeyword ==
    IF \E j \in Tokens : heap[j].is_keyword
    THEN heap[CHOOSE j \in Tokens :
                 heap[j].is_keyword /\ \A k \in Tokens : heap[k].is_keyword => k <= j].value
    ELSE NoKeyword

InitWith(S) ==
    /\ raw \in S
    /\ heap = (EmptyToken :> NewEmptyToken)
    /\ pc = "build"
    /\ op = "init"
    /\ call = Call(EmptyToken)
    /\ result = NoResult

Init == InitWith(Streams)
InitDots == InitWith(DotStreams)
InitAlias == InitWith(AliasStreams)
InitStrip == InitWith(StripStreams)

\* the builder constructs the next token of the stream; the nesting depth it
\* passes is read by nothing in token.py and is left at 0
Construct ==
    /\ pc = "build"
    /\ NumTokens < Len(raw)
    /\ LET index == NumTokens
       IN  /\ heap' = heap @@ ((index + 1) :> SQLToken(raw[index + 1], index, 0, LastKeyword))
           /\ pc' = IF index > 0 THEN "wire" ELSE "build"
           /\ op' = "construct"
           /\ call' = Call(index + 1)
    /\ result' = NoResult
    /\ UNCHANGED raw

\* the builder links the new token and its predecessor
Wire ==
    /\ pc = "wire"
    /\ heap' = [heap EXCEPT ![NumTokens].previous_token = NumTokens - 1,
                            ![NumTokens - 1].next_token = NumTokens]
    /\ pc' = "build"
    /\ op' = "wire"
    /\ call' = Call(NumTokens)
    /\ result' = NoResult
    /\ UNCHANGED raw

Tagged == \E t \in Tokens : heap[t].is_with_columns_start \/ heap[t].is_with_columns_end

\* the builder's parenthesis pass tags a pair as a WITH column list
TagWithColumns(i, j) ==
    /\ pc = "build"
    /\ NumTokens = Len(raw)
    /\ ~Tagged
    /\ i < j
    /\ heap[i].is_left_parenthesis
    /\ heap[j].is_right_parenthesis
    /\ heap' = [heap EXCEPT ![i].is_with_columns_start = TRUE,
                            ![j].is_with_columns_end = TRUE]
    /\ op' = "tag"
    /\ call' = Call(i)
    /\ result' = NoResult
    /\ UNCHANGED <<raw, pc>>

\* the builder hands the finished list to its readers
BuildDone ==
    /\ pc = "build"
    /\ NumTokens = Len(raw)
    /\ pc' = "built"
    /\ op' = "built"
    /\ call' = Call(EmptyToken)
    /\ result' = NoResult
    /\ UNCHANGED <<raw, heap>>

\* ------------------------------------------------------------- readers

\* a reader calls o with c when it holds no result, or repeats the call
\* whose result it holds
Callable(o, c) == pc = "built" \/ (pc = "returned" /\ op = o /\ call = c)

\* the call returns (or raises): what was called and what came back
Returns(o, c, r) == Callable(o, c) /\ op' = o /\ call' = c /\ result' = r /\ pc' = "returned"

\* the reader drops the result it holds
Discard ==
    /\ pc = "returned"
    /\ pc' = "built"
    /\ op' = "built"
    /\ call' = Call(EmptyToken)
    /\ result' = NoResult
    /\ UNCHANGED <<raw, heap>>

Eval_normalized(self) ==
    /\ Returns("normalized", Call(self), RetStr(normalized(self)))
    /\ UNCHANGED <<raw, heap>>

Eval_last_keyword_normalized(self) ==
    /\ Returns("last_keyword_normalized", Call(self), RetStr(last_keyword_normalized(self)))
    /\ UNCHANGED <<raw, heap>>

Eval_stringified_token(self) ==
    /\ Returns("stringified_token", Call(self), RetStr(stringified_token(self)))
    /\ UNCHANGED <<raw, heap>>

\* a left_expanded that stores the expansion back into the token
Eval_left_expanded_caching(self) ==
    /\ Returns("left_expanded", Call(self), RetStr(left_expanded(self)))
    /\ heap' = [heap EXCEPT ![self].value = left_expanded(self)]
    /\ UNCHANGED raw

Eval_left_expanded(self) ==
    /\ Returns("left_expanded", Call(self), RetStr(left_expanded(self)))
    /\ UNCHANGED <<raw, heap>>

Eval_is_in_parenthesis(self) ==
    /\ Returns("is_in_parenthesis", Call(self), RetBool(is_in_parenthesis(self)))
    /\ UNCHANGED <<raw, heap>>

Eval_is_in_with_columns(self) ==
    /\ Returns("is_in_with_columns", Call(self), RetBool(is_in_with_columns(self)))
    /\ UNCHANGED <<raw, heap>>

Eval_is_alias_without_as(self) ==
    /\ Returns("is_alias_without_as", Call(self), is_alias_without_as(self))
    /\ UNCHANGED <<raw, heap>>

Eval_table_prefixed_column(self, a) ==
    /\ Returns("table_prefixed_column", [Call(self) EXCEPT !.aliases = a],
               table_prefixed_column(self, AliasMaps[a]))
    /\ UNCHANGED <<raw, heap>>

Eval_get_nth_previous(self, level) ==
    /\ Returns("get_nth_previous", [Call(self) EXCEPT !.level = level],
               call_get_nth_previous(self, level))
    /\ UNCHANGED <<raw, heap>>

Eval_find_nearest_token(self, f, direction) ==
    /\ Returns("find_nearest_token",
               [Call(self) EXCEPT !.arg = f, !.direction = direction],
               find_nearest_token(self, FindArgs[f].value, direction,
                                  FindArgs[f].value_attribute))
    /\ UNCHANGED <<raw, heap>>

Next ==
    \/ Construct
    \/ Wire
    \/ \E i, j \in Tokens : TagWithColumns(i, j)
    \/ BuildDone
    \/ Discard
    \/ \E self \in DOMAIN heap :
        \/ Eval_normalized(self)
        \/ Eval_last_keyword_normalized(self)
        \/ Eval_stringified_token(self)
        \/ Eval_left_expanded(self)
        \/ Eval_is_in_parenthesis(self)
        \/ Eval_is_in_with_columns(self)
        \/ Eval_is_alias_without_as(self)
        \/ \E a \in DOMAIN AliasMaps : Eval_table_prefixed_column(self, a)
        \/ \E level \in 0..(NumTokens + MaxExtraLevel) : Eval_get_nth_previous(self, level)
        \/ \E f \in DOMAIN FindArgs, direction \in Directions :
               Eval_find_nearest_token(self, f, direction)

Spec == Init /\ [][Next]_vars
SpecDots == InitDots /\ [][Next]_vars
SpecAlias == InitAlias /\ [][Next]_vars
SpecStrip == InitStrip /\ [][Next]_vars

\* ---------------------------------------------------------- properties

\* the token at stream index i, the sentinel when there is none
TokenAt(i) ==
    IF \E t \in Tokens : heap[t].position = i
    THEN CHOOSE t \in Tokens : heap[t].position = i
    ELSE EmptyToken

\* a reader holds the result of calling o
Returned(o) == pc = "returned" /\ op = o

\* C1: every constructed token's previous_token and next_token is a token
\* (the sentinel or a token of the list), at construction and after every
\* wiring step, never None; the sentinel's own two links are None and stay
\* None.
C1_LinksNeverAbsent ==
    /\ \A t \in Tokens :
        /\ heap[t].previous_token \in DOMAIN heap
        /\ heap[t].next_token \in DOMAIN heap
    /\ heap[EmptyToken].previous_token = None
    /\ heap[EmptyToken].next_token = None
    /\ \A t \in DOMAIN heap :
        (heap[t].previous_token = None \/ heap[t].next_token = None) => t = EmptyToken

\* C1 witness: two tokens constructed and wired to each other, the first
\* still pointing back at the sentinel.
C1_Witness ==
    /\ NumTokens >= 2
    /\ heap[2].previous_token = 1
    /\ heap[1].next_token = 2
    /\ heap[1].previous_token = EmptyToken
    /\ heap[2].next_token = EmptyToken

\* C2: on the token at index i, get_nth_previous(k) with k >= 1 returns the
\* token at index i - k when k <= i and the sentinel when k > i; it returns
\* a token, never None, and does not raise.
C2_NthPrevious ==
    (Returned("get_nth_previous") /\ call.self \in Tokens /\ call.level >= 1) =>
        /\ result.exc = "none"
        /\ result.tok \in DOMAIN heap
        /\ LET i == heap[call.self].position
               k == call.level
           IN  IF k <= i
               THEN result.tok \in Tokens /\ heap[result.tok].position = i - k
               ELSE result.tok = EmptyToken

\* C2 witness: two hops back from the third token reached the first.
C2_Witness ==
    /\ Returned("get_nth_previous")
    /\ call.self = 3
    /\ call.level = 2
    /\ result.tok = 1

\* the targets of the find_nearest_token call a reader holds
CallTargets ==
    LET value == FindArgs[call.arg].value
    IN  IF value.type = "list"
        THEN {value.items[i] : i \in DOMAIN value.items}
        ELSE {value.item}

\* the tokens on the searched side of the start token whose attribute is a
\* target
CallMatches ==
    LET i == heap[call.self].position
    IN  {t \in Tokens :
            /\ IF call.direction = "left"
               THEN heap[t].position < i
               ELSE heap[t].position > i
            /\ GetAttr(t, FindArgs[call.arg].value_attribute) \in CallTargets}

\* C3: find_nearest_token from a token of the list returns, within at most
\* one iteration per token and the sentinel, the matching token nearest to
\* the start on the searched side, or the sentinel when none matches; it
\* never returns the start token and does not raise.
C3_FindNearest ==
    (Returned("find_nearest_token") /\ call.self \in Tokens) =>
        LET i == heap[call.self].position
            Dist(t) == IF heap[t].position < i
                       THEN i - heap[t].position
                       ELSE heap[t].position - i
        IN  /\ result.exc = "none"
            /\ result.tok # call.self
            /\ result.hops <= NumTokens + 1
            /\ IF CallMatches = {}
               THEN result.tok = EmptyToken
               ELSE /\ result.tok \in CallMatches
                    /\ \A m \in CallMatches : Dist(result.tok) <= Dist(m)

\* C3 witness: a search to the right passed a token that did not match and
\* returned a later one that did.
C3_Witness ==
    /\ Returned("find_nearest_token")
    /\ call.self \in Tokens
    /\ call.direction = "right"
    /\ result.tok \in Tokens
    /\ result.hops >= 2

\* the expansion C4 describes: prepend "<name>." while the predecessor is a
\* dot and the token two back is a name, stop at the first pair that is not
RECURSIVE MaximalRunExpansion(_, _)
MaximalRunExpansion(t, value) ==
    LET p1 == TokenAt(heap[t].position - 1)
        p2 == TokenAt(heap[t].position - 2)
    IN  IF t # EmptyToken /\ heap[p1].is_dot /\ heap[p2].is_name
        THEN MaximalRunExpansion(p2, heap[p2].value \o <<".">> \o value)
        ELSE value

\* C4: left_expanded of a token is its value prefixed with "<name>." for
\* each qualifier of the maximal run of (name, dot) pairs right before it;
\* the walk stops at the first pair whose two-back token is not a name.
\* a . b . c gives "a.b.c" on c.
C4_LeftExpanded ==
    (Returned("left_expanded") /\ call.self \in Tokens) =>
        /\ result.str = MaximalRunExpansion(call.self, heap[call.self].value)
        /\ (raw = Sc_abc /\ call.self = 5) => result.str = <<"a", ".", "b", ".", "c">>

\* the number of dot-separated segments of a string
RECURSIVE CountDots(_)
CountDots(s) ==
    IF s = <<>> THEN 0 ELSE (IF Head(s) = "." THEN 1 ELSE 0) + CountDots(Tail(s))

\* a string with its first dot-separated segment looked up in aliases
FirstSegmentReplaced(s, aliases) ==
    LET segments == Split(s)
    IN  Join([segments EXCEPT ![1] = Get(aliases, segments[1])])

\* C5 as stated: table_prefixed_column raises exactly when left_expanded has
\* more than three dot-separated segments, and otherwise returns
\* left_expanded with its first segment replaced by its mapping in aliases.
C5_FirstSegmentAlwaysReplaced ==
    Returned("table_prefixed_column") =>
        LET value == left_expanded(call.self)
        IN  /\ result.exc # "none" <=> CountDots(value) + 1 > 3
            /\ result.exc = "none" =>
                   result.str = FirstSegmentReplaced(value, AliasMaps[call.aliases])

\* C5 amended: table_prefixed_column raises ValueError exactly when
\* left_expanded has more than three dot-separated segments; with two or
\* three segments it returns left_expanded with only the first segment
\* replaced by its mapping in aliases (kept when it is no key); with no dot
\* it returns left_expanded unchanged, a key of aliases or not. "al.col"
\* with {"al": "orders"} gives "orders.col".
C5_TablePrefixed ==
    Returned("table_prefixed_column") =>
        LET value == left_expanded(call.self)
            segments == CountDots(value) + 1
        IN  /\ result.exc \in {"none", "ValueError"}
            /\ result.exc = "ValueError" <=> segments > 3
            /\ (result.exc = "none" /\ segments > 1) =>
                   result.str = FirstSegmentReplaced(value, AliasMaps[call.aliases])
            /\ (result.exc = "none" /\ segments = 1) => result.str = value
            /\ (raw = Sc_alcol /\ call.self = 3 /\ call.aliases = 2) =>
                   result.str = S_orders \o <<".">> \o S_col
            /\ (raw = Sc_quoted /\ call.self = 3) => result.exc = "ValueError"

\* C5 witness: the alias of "al.col" was replaced by its table.
C5_Witness ==
    /\ Returned("table_prefixed_column")
    /\ raw = Sc_alcol
    /\ call.self = 3
    /\ call.aliases = 2
    /\ result.str = S_orders \o <<".">> \o S_col

\* C6: on a token of the list, is_alias_without_as is true exactly when the
\* normalized last_keyword is SELECT, the next token's normalized value is
\* "," or FROM, the previous token's normalized value is none of ",", ".",
\* "(", SELECT, and the previous token is no comment. In SELECT col alias
\* FROM t it is true on alias and false on col.
C6_AliasWithoutAs ==
    (Returned("is_alias_without_as") /\ call.self \in Tokens) =>
        LET i == heap[call.self].position
            next == TokenAt(i + 1)
            previous == TokenAt(i - 1)
        IN  /\ result.exc = "none"
            /\ result.bool <=>
                /\ Normalize(heap[call.self].last_keyword) = S_SELECT
                /\ Normalize(heap[next].value) \in {<<",">>, S_FROM}
                /\ Normalize(heap[previous].value)
                       \notin {<<",">>, <<".">>, <<"(">>, S_SELECT}
                /\ ~heap[previous].is_comment
            /\ (raw = Sc_select /\ call.self = 3) => result.bool
            /\ (raw = Sc_select /\ call.self = 2) => ~result.bool

\* C6 witness: alias in SELECT col alias FROM t was found to be an alias.
C6_Witness ==
    /\ Returned("is_alias_without_as")
    /\ raw = Sc_select
    /\ call.self = 3
    /\ result.bool

\* the fragment C7 describes for a token
ClaimedFragment(t) ==
    LET previous == TokenAt(heap[t].position - 1)
    IN  IF heap[t].position = 0 THEN heap[t].value
        ELSE IF \/ normalized(t) \in {<<")">>, <<".">>, <<",">>}
                \/ normalized(previous) \in {<<"(">>, <<".">>}
                \/ /\ heap[t].is_left_parenthesis
                   /\ normalized(previous) \in FUNCTIONS_IGNORED
        THEN heap[t].value
        ELSE <<" ">> \o heap[t].value

\* "".join of stringified_token over the first n tokens
RECURSIVE Reconstructed(_)
Reconstructed(n) ==
    IF n = 0 THEN <<>> ELSE Reconstructed(n - 1) \o stringified_token(n)

\* C7: the stringified tokens, concatenated in stream order, give the query
\* text: nothing before the first token, and before each later token one
\* space unless it is ")", "." or ",", follows "(" or ".", or is a "(" after
\* an ignored function name. SELECT, a, ",", b give "SELECT a,b".
C7_Reconstruct ==
    /\ (Returned("stringified_token") /\ call.self \in Tokens) =>
           result.str = ClaimedFragment(call.self)
    /\ (pc = "built" /\ raw = Sc_selab) =>
           Reconstructed(NumTokens) = S_SELECT \o <<" ", "a", ",", "b">>

\* C8: the value of a token neither starts nor ends with a backtick or a
\* double quote, whatever the raw lexer value was.
C8_ValueUnquoted ==
    \A t \in Tokens :
        LET value == heap[t].value
        IN  value # <<>> =>
                /\ value[1] \notin {Backtick, DQuote}
                /\ value[Len(value)] \notin {Backtick, DQuote}

\* C9: a property or traversal call leaves every field of every token and of
\* the sentinel as it was, and a call repeated with the same arguments
\* returns what it returned before.
C9_ReadsArePure ==
    [][pc' = "returned" =>
          /\ heap' = heap
          /\ (pc = "returned" => result' = result)]_vars

\* C9 witness: left_expanded walked back over a dot and returned a dotted
\* name.
C9_Witness ==
    /\ Returned("left_expanded")
    /\ call.self \in Tokens
    /\ HasDot(result.str)
    /\ ~HasDot(heap[call.self].value)

\* C10: every derived property and traversal primitive evaluated on the
\* sentinel returns a value and does not raise.
C10_SentinelSafe ==
    ( /\ pc = "returned"
      /\ call.self = EmptyToken
      /\ op \in {"stringified_token", "left_expanded", "is_in_parenthesis",
                 "is_in_with_columns", "is_alias_without_as",
                 "table_prefixed_column", "get_nth_previous", "find_nearest_token"}
      /\ (op = "get_nth_previous" => call.level >= 1) )
        => result.exc = "none"
====
